---- MODULE Spec2Model ----
\* Binary knapsack notebook (knapsack/knapsack.ipynb): an abstract Pyomo model
\* (set I, parameters q, p, w, binary variables x, objective z, one capacity
\* constraint), one instance created from it with seeded random data, solved
\* with GLPK, re-solved after changing the mutable capacity, and swept over a
\* list of capacities by parametric_analysis.
EXTENDS Integers, Sequences, FiniteSets, TLC

(***************************************************************************)
(* Bounds of the model.                                                    *)
(***************************************************************************)
\* largest item count of the small generated instances
MaxItems == 2
\* longest small sweep
MaxSweep == 3
\* most instances built in one run (specification SpecBuild)
MaxBuilds == 2

(***************************************************************************)
(* Program constants.                                                      *)
(***************************************************************************)
\* model.I = Set(initialize=list(range(1,11)))
NumItems == 10
\* random.randrange(10, 50)
ProfitLo == 10
ProfitHi == 50
\* random.randrange(1, 10)
WeightLo == 1
WeightHi == 10
\* model.q = Param(initialize=20, mutable=True)
InitialCapacity == 20
\* instance.q.set_value(30)
SecondCapacity == 30
\* qs = list(range(20, 50, 5))
SweepStart == 20
SweepStop == 50
SweepStep == 5
\* the value of a variable no solve has assigned ("Value : None"), and the
\* outcome of evaluating an expression over such a variable; every number the
\* program computes from assigned variables is >= 0
None == -1

VARIABLES
    pc,        \* the next notebook statement
    modelI,    \* model.I, the declared item set
    tape,      \* the output stream of the generator that random.seed(0) fixes
    rngpos,    \* how many draws the generator has produced since it was seeded
    instance,  \* the instance: [I, q, p, w, x]
    results,   \* the results object of the last solver.solve
    reported,  \* the last objective value read with pyopt.value(instance.z)
    selected,  \* the last printed "Selected items"
    qs,        \* the capacities of the sweep
    values,    \* the list the sweep collects
    solveLog,  \* history: one entry per solver.solve call
    created,   \* history: the items as create_instance made them
    builds,    \* history: the items of every create_instance of the run
    plotted,   \* the points plt.plot(qs, values) draws
    dp         \* the dynamic program: [phase, i, c, T, sel]

vars == <<pc, modelI, tape, rngpos, instance, results, reported, selected,
          qs, values, solveLog, created, builds, plotted, dp>>

(***************************************************************************)
(* The random generator.                                                   *)
(***************************************************************************)
\* What random.seed(0) followed by randrange(10,50) x 10, randrange(1,10) x 10
\* returns, less the lower end of the range, for three instances in a row.
\* The first twenty are the coefficients the notebook prints.
Seed0Tape ==
    << 24, 26, 2, 16, 32, 31, 25, 19, 30, 22,
       3, 8, 2, 4, 2, 1, 4, 8, 2, 4,
       6, 4, 21, 30, 35, 6, 22, 27, 20, 39,
       3, 8, 7, 7, 8, 4, 0, 8, 0, 1,
       25, 0, 39, 31, 21, 15, 20, 4, 12, 36,
       3, 3, 2, 8, 7, 1, 1, 5, 8, 7 >>

\* random.randrange(lo, hi): the next draw of the generator, brought into
\* [lo, hi)
randrange(t, pos, lo, hi) == lo + (t[pos] % (hi - lo))

\* getProfits(model): one draw per item, in the order of model.I; pos draws
\* have been made before
getProfits(t, pos, I) == [i \in I |-> randrange(t, pos + i, ProfitLo, ProfitHi)]

\* getWeights(model, i): one draw; Pyomo calls the rule for each i of model.I
\* in order, after pos draws
getWeights(t, pos, i) == randrange(t, pos + i, WeightLo, WeightHi)

(***************************************************************************)
(* The model: objective, constraint, instance.                             *)
(***************************************************************************)
RECURSIVE sum(_, _)
\* pyopt.sum(f[i] for i in I)
sum(f, I) ==
    IF I = {} THEN 0
    ELSE LET i == CHOOSE j \in I : TRUE
         IN  f[i] + sum(f, I \ {i})

\* the model before create_instance: every component has size 0
AbstractModel ==
    [I |-> {}, q |-> InitialCapacity, p |-> <<>>, w |-> <<>>, x |-> <<>>]

\* model.create_instance(): constructs I, q, p, w in declaration order, then
\* the variables, which have no value
create_instance(I, t, pos) ==
    [I |-> I,
     q |-> InitialCapacity,
     p |-> getProfits(t, pos, I),
     w |-> [i \in I |-> getWeights(t, pos + Cardinality(I), i)],
     x |-> [i \in I |-> None]]

\* obj_function with the weights as coefficients
obj_function_weights(m, a) == sum([i \in m.I |-> m.w[i] * a[i]], m.I)

\* obj_function(model): sum(p[i] * x[i]) under the assignment a
obj_function(m, a) == sum([i \in m.I |-> m.p[i] * a[i]], m.I)

\* cons_capacity without the weights: it counts the items
cons_capacity_unweighted(m, a) == sum([i \in m.I |-> a[i]], m.I) <= m.q

\* cons_capacity with a strict inequality
cons_capacity_strict(m, a) == sum([i \in m.I |-> m.w[i] * a[i]], m.I) < m.q

\* cons_capacity with one unit of capacity too many
cons_capacity_slack(m, a) == sum([i \in m.I |-> m.w[i] * a[i]], m.I) <= m.q + 1

\* cons_capacity(model): sum(w[i] * x[i]) <= q under the assignment a
cons_capacity(m, a) == sum([i \in m.I |-> m.w[i] * a[i]], m.I) <= m.q

\* pyopt.value(instance.z): the objective under the variables' current
\* values; an error when a variable has none
value(m) ==
    IF \E i \in m.I : m.x[i] = None THEN None ELSE obj_function(m, m.x)

\* set_value that leaves the capacity as it was
set_value_ignored(m, v) == m

\* instance.q.set_value(v)
set_value(m, v) == [m EXCEPT !.q = v]

(***************************************************************************)
(* The solver.                                                             *)
(***************************************************************************)
\* within=pyopt.Binary
Binary == {0, 1}

\* the binary assignments with the capacity constraint left out
Feasible_unconstrained(m) == [m.I -> Binary]

\* the assignments the solver searches: every x[i] binary, cons_capacity met
Feasible(m) == {a \in [m.I -> Binary] : cons_capacity(m, a)}

\* sense=pyopt.minimize
minimize(S) == CHOOSE v \in S : \A u \in S : v <= u

\* sense=pyopt.maximize
maximize(S) == CHOOSE v \in S : \A u \in S : u <= v

\* the results object when no assignment is feasible
Infeasible == [status |-> "warning", termination |-> "infeasible", bound |-> None]

\* the results object of a solve to optimality, z the optimal objective
Optimal(z) == [status |-> "ok", termination |-> "optimal", bound |-> z]

\* a solve that first removes from the instance the items too heavy to fit
solve_dropping(m) ==
    LET d == [m EXCEPT !.I = {i \in m.I : m.w[i] <= m.q}]
        F == Feasible(d)
    IN  IF F = {}
        THEN [instance |-> m, results |-> Infeasible]
        ELSE LET z == maximize({obj_function(d, a) : a \in F})
                 best == CHOOSE a \in F : obj_function(d, a) = z
             IN  [instance |-> [d EXCEPT !.x = best], results |-> Optimal(z)]

\* solver.solve(instance): GLPK finds an optimal assignment and Pyomo loads
\* it into instance.x; GLPK has no random choice, so among several optimal
\* assignments it returns a fixed one. When the problem is infeasible there
\* is no solution to load: Pyomo logs a warning and the variables keep the
\* values they had.
solve(m) ==
    LET F == Feasible(m)
    IN  IF F = {}
        THEN [instance |-> m, results |-> Infeasible]
        ELSE LET z == maximize({obj_function(m, a) : a \in F})
                 best == CHOOSE a \in F : obj_function(m, a) = z
             IN  [instance |-> [m EXCEPT !.x = best], results |-> Optimal(z)]

\* parametric_analysis that reads the objective before it solves
parametric_analysis_stale(m, q) ==
    LET r == solve(set_value(m, q))
    IN  [instance |-> r.instance, results |-> r.results, z |-> value(m)]

\* parametric_analysis(q): set the capacity, solve, return the objective
parametric_analysis(m, q) ==
    LET r == solve(set_value(m, q))
    IN  [instance |-> r.instance, results |-> r.results, z |-> value(r.instance)]

\* the entry of the solver call history: the capacity the solver was given,
\* how it ended, and the variables' values after it
LogEntry(m, r) ==
    [q |-> m.q, termination |-> r.results.termination, x |-> r.instance.x]

(***************************************************************************)
(* Inputs.                                                                 *)
(***************************************************************************)
\* the draws of the generator on the small generated instances: weights 1
\* and 2, profits 10 and 11, so that items tie, differ, fit and do not fit
SmallDraws == {0, 1}

\* the capacities of the small sweeps: infeasible, nothing fits, one light
\* item fits, one heavy or two light items fit
SmallCapacities == {-1, 0, 1, 2}

\* the sequences over S of length at most n
SeqsUpTo(S, n) == UNION {[1..k -> S] : k \in 0..n}

\* qs = list(range(20, 50, 5))
NotebookQs ==
    [k \in 1..((SweepStop - SweepStart + SweepStep - 1) \div SweepStep)
        |-> SweepStart + (k - 1) * SweepStep]

\* the sweeps: the notebook's, and every short sequence of small capacities
Sweeps == {NotebookQs} \cup SeqsUpTo(SmallCapacities, MaxSweep)

\* the item sets and generator streams: the notebook's ten items with the
\* stream of seed 0, and every small item set with every stream long enough
\* for `nbuilds` instances
Setups(nbuilds) ==
    {[I |-> 1..NumItems, tape |-> Seed0Tape]}
    \cup {[I |-> 1..n, tape |-> t] :
            n \in 1..MaxItems, t \in SeqsUpTo(SmallDraws, 2 * MaxItems * nbuilds)}

\* a setup whose stream is exactly as long as nbuilds instances need
SetupOK(s, nbuilds) ==
    \/ s.tape = Seed0Tape
    \/ Len(s.tape) = 2 * Cardinality(s.I) * nbuilds

\* the dynamic program not started
NoTable == [phase |-> "none", i |-> 0, c |-> 0, T |-> <<>>, sel |-> {}]

NoResults == [status |-> "none", termination |-> "none", bound |-> None]

(***************************************************************************)
(* The notebook, statement by statement.                                   *)
(***************************************************************************)
\* after the cells that declare the model and seed the generator
Init ==
    /\ pc = "create"
    /\ \E s \in Setups(1) :
          /\ SetupOK(s, 1)
          /\ modelI = s.I
          /\ tape = s.tape
    /\ rngpos = 0
    /\ instance = AbstractModel
    /\ results = NoResults
    /\ reported = None
    /\ selected = {}
    /\ qs = <<>>
    /\ values = <<>>
    /\ solveLog = <<>>
    /\ created = AbstractModel
    /\ builds = <<>>
    /\ plotted = <<>>
    /\ dp = NoTable

\* instance = model.create_instance()
CreateInstance ==
    /\ pc = "create"
    /\ rngpos + 2 * Cardinality(modelI) <= Len(tape)
    /\ instance' = create_instance(modelI, tape, rngpos)
    /\ rngpos' = rngpos + 2 * Cardinality(modelI)
    /\ created' = instance'
    /\ builds' = Append(builds, instance')
    /\ pc' = "display0"
    /\ UNCHANGED <<dp, modelI, tape, results, reported, selected, qs, values, solveLog,
                   plotted>>

\* instance.display(): prints the objective's value, or an error when the
\* variables have no value
Display(from, to) ==
    /\ pc = from
    /\ reported' = value(instance)
    /\ pc' = to
    /\ UNCHANGED <<dp, modelI, tape, rngpos, instance, results, selected, qs, values,
                   solveLog, created, builds, plotted>>

\* results = solver.solve(instance)
Solve(from, to) ==
    /\ pc = from
    /\ LET r == solve(instance)
       IN  /\ instance' = r.instance
           /\ results' = r.results
           /\ solveLog' = Append(solveLog, LogEntry(instance, r))
    /\ pc' = to
    /\ UNCHANGED <<dp, modelI, tape, rngpos, reported, selected, qs, values, created, builds, plotted>>

\* print value(instance.z), x[1] and the selected items
PrintResult ==
    /\ pc = "print"
    /\ reported' = value(instance)
    /\ selected' = {i \in instance.I : instance.x[i] > 0}
    /\ pc' = "set_value"
    /\ UNCHANGED <<dp, modelI, tape, rngpos, instance, results, qs, values, solveLog,
                   created, builds, plotted>>

\* instance.q.set_value(30)
SetValue ==
    /\ pc = "set_value"
    /\ instance' = set_value(instance, SecondCapacity)
    /\ pc' = "solve2"
    /\ UNCHANGED <<dp, modelI, tape, rngpos, results, reported, selected, qs, values,
                   solveLog, created, builds, plotted>>

\* print value(instance.z)
PrintValue ==
    /\ pc = "print2"
    /\ reported' = value(instance)
    /\ pc' = "qs"
    /\ UNCHANGED <<dp, modelI, tape, rngpos, instance, results, selected, qs, values,
                   solveLog, created, builds, plotted>>

\* qs = list(range(20, 50, 5)), or another list of capacities
AssignQs ==
    /\ pc = "qs"
    /\ qs' \in Sweeps
    /\ pc' = "sweep"
    /\ UNCHANGED <<dp, modelI, tape, rngpos, instance, results, reported, selected,
                   values, solveLog, created, builds, plotted>>

\* one step of values = list(map(parametric_analysis, qs)): the call for the
\* next capacity of qs
ParametricAnalysis ==
    /\ pc = "sweep"
    /\ Len(values) < Len(qs)
    /\ LET q == qs[Len(values) + 1]
           r == parametric_analysis(instance, q)
       IN  /\ instance' = r.instance
           /\ results' = r.results
           /\ reported' = r.z
           /\ values' = Append(values, r.z)
           /\ solveLog' = Append(solveLog, LogEntry(set_value(instance, q), r))
    /\ UNCHANGED <<dp, pc, modelI, tape, rngpos, selected, qs, created, builds, plotted>>

\* plt.plot(qs, values): the map is exhausted, the k-th capacity is drawn
\* against the k-th value
Plot ==
    /\ pc = "sweep"
    /\ Len(values) = Len(qs)
    /\ plotted' = [k \in 1..Len(qs) |-> <<qs[k], values[k]>>]
    /\ pc' = "done"
    /\ UNCHANGED <<dp, modelI, tape, rngpos, instance, results, reported, selected, qs,
                   values, solveLog, created, builds>>

Next ==
    \/ CreateInstance
    \/ Display("display0", "solve1")
    \/ Solve("solve1", "display1")
    \/ Display("display1", "print")
    \/ PrintResult
    \/ SetValue
    \/ Solve("solve2", "print2")
    \/ PrintValue
    \/ AssignQs
    \/ ParametricAnalysis
    \/ Plot

Spec == Init /\ [][Next]_vars

(***************************************************************************)
(* Building instances repeatedly in one run.                               *)
(***************************************************************************)
\* after the cells that declare the model and seed the generator, with a
\* stream long enough for MaxBuilds instances
InitBuild ==
    /\ pc = "build"
    /\ \E s \in Setups(MaxBuilds) :
          /\ SetupOK(s, MaxBuilds)
          /\ modelI = s.I
          /\ tape = s.tape
    /\ rngpos = 0
    /\ instance = AbstractModel
    /\ results = NoResults
    /\ reported = None
    /\ selected = {}
    /\ qs = <<>>
    /\ values = <<>>
    /\ solveLog = <<>>
    /\ created = AbstractModel
    /\ builds = <<>>
    /\ plotted = <<>>
    /\ dp = NoTable

\* random.seed(0), run again: the generator starts its stream over
Reseed ==
    /\ pc = "build"
    /\ rngpos # 0
    /\ rngpos' = 0
    /\ UNCHANGED <<dp, pc, modelI, tape, instance, results, reported, selected, qs,
                   values, solveLog, created, builds, plotted>>

\* instance = model.create_instance(), run again
Rebuild ==
    /\ pc = "build"
    /\ Len(builds) < MaxBuilds
    /\ rngpos + 2 * Cardinality(modelI) <= Len(tape)
    /\ instance' = create_instance(modelI, tape, rngpos)
    /\ rngpos' = rngpos + 2 * Cardinality(modelI)
    /\ created' = instance'
    /\ builds' = Append(builds, instance')
    /\ UNCHANGED <<dp, pc, modelI, tape, results, reported, selected, qs, values,
                   solveLog, plotted>>

NextBuild ==
    \/ Reseed
    \/ Rebuild

SpecBuild == InitBuild /\ [][NextBuild]_vars

(***************************************************************************)
(* The dynamic program that stands for the solver.                         *)
(***************************************************************************)
\* the capacities the dynamic program is run with: the small ones that are
\* not negative (the table has no column below zero) and the notebook's two
DPCapacities == {c \in SmallCapacities : c >= 0} \cup {InitialCapacity, SecondCapacity}

\* the larger of two numbers
Max(a, b) == IF a >= b THEN a ELSE b

\* best(0, c) = 0 for all c
BaseRow(m) == [c \in 0..m.q |-> 0]

\* best(i, c) = max(best(i-1, c), profit[i] + best(i-1, c - weight[i])) when
\* weight[i] <= c, else best(i-1, c); prev is the row best(i-1, .)
TableRow(m, i, prev) ==
    [c \in 0..m.q |->
        IF m.w[i] <= c THEN Max(prev[c], m.p[i] + prev[c - m.w[i]]) ELSE prev[c]]

\* best(i, c) in the table T: T[1] is the row of i = 0
Best(T, i, c) == T[i + 1][c]

\* back-tracking includes item i whenever best(i, c) # best(i-1, c)
Includes(T, i, c) == Best(T, i, c) # Best(T, i - 1, c)

\* back-tracking that stays at the same residual capacity after an included
\* item
NextResidual_same(m, i, c) == c

\* the residual capacity back-tracking continues from after including item i
NextResidual(m, i, c) == c - m.w[i]

\* an instance and a capacity >= 0; the table holds the base row
InitDP ==
    /\ pc = "dp"
    /\ \E s \in Setups(1) :
          /\ SetupOK(s, 1)
          /\ modelI = s.I
          /\ tape = s.tape
    /\ rngpos = 2 * Cardinality(modelI)
    /\ \E cap \in DPCapacities :
          instance = set_value(create_instance(modelI, tape, 0), cap)
    /\ created = instance
    /\ builds = <<instance>>
    /\ results = NoResults
    /\ reported = None
    /\ selected = {}
    /\ qs = <<>>
    /\ values = <<>>
    /\ solveLog = <<>>
    /\ plotted = <<>>
    /\ dp = [phase |-> "fill", i |-> 0, c |-> instance.q,
             T |-> <<BaseRow(instance)>>, sel |-> {}]

\* build the next row of the table; after the last row back-tracking starts
\* from (n, capacity)
FillRow ==
    /\ dp.phase = "fill"
    /\ dp.i < Cardinality(instance.I)
    /\ dp' = [dp EXCEPT
                !.T = Append(dp.T, TableRow(instance, dp.i + 1, dp.T[dp.i + 1])),
                !.i = dp.i + 1,
                !.phase = IF dp.i + 1 = Cardinality(instance.I) THEN "back" ELSE "fill"]
    /\ UNCHANGED <<pc, modelI, tape, rngpos, instance, results, reported, selected,
                   qs, values, solveLog, created, builds, plotted>>

\* one step of back-tracking, at (i, c)
BackStep ==
    /\ dp.phase = "back"
    /\ dp.i >= 1
    /\ dp' = [dp EXCEPT
                !.sel = IF Includes(dp.T, dp.i, dp.c) THEN dp.sel \cup {dp.i} ELSE dp.sel,
                !.c = IF Includes(dp.T, dp.i, dp.c)
                      THEN NextResidual(instance, dp.i, dp.c) ELSE dp.c,
                !.i = dp.i - 1,
                !.phase = IF dp.i = 1 THEN "done" ELSE "back"]
    /\ UNCHANGED <<pc, modelI, tape, rngpos, instance, results, reported, selected,
                   qs, values, solveLog, created, builds, plotted>>

NextDP ==
    \/ FillRow
    \/ BackStep

SpecDP == InitDP /\ [][NextDP]_vars

(***************************************************************************)
(* Vocabulary of the properties.                                           *)
(***************************************************************************)
\* the items an assignment includes
Flagged(a) == {i \in DOMAIN a : a[i] = 1}

\* total weight and total profit of a set of items of the instance
TotalWeight(S) == sum(instance.w, S)
TotalProfit(S) == sum(instance.p, S)

\* the latest solver call
LastSolve == solveLog[Len(solveLog)]

\* the solver call of the k-th capacity of the sweep: two calls precede the
\* sweep
SweepSolve(k) == solveLog[2 + k]

\* the ten items of the notebook
NotebookProfits == <<34, 36, 12, 26, 42, 41, 35, 29, 40, 32>>
NotebookWeights == <<4, 9, 3, 5, 3, 2, 5, 9, 3, 5>>
IsNotebookInstance ==
    /\ instance.I = 1..NumItems
    /\ instance.p = NotebookProfits
    /\ instance.w = NotebookWeights

(***************************************************************************)
(* Properties.                                                             *)
(***************************************************************************)
\* C1: after every solve given a capacity >= 0, the direct ones and each one
\* of a sweep, the items the selection includes weigh at most that capacity.
C1_Feasible ==
    (solveLog # <<>> /\ LastSolve.q >= 0)
        => TotalWeight(Flagged(LastSolve.x)) <= LastSolve.q

\* a solve of a sweep left an item out and took another, and not all fit
C1_Witness ==
    /\ Len(solveLog) > 2
    /\ LastSolve.q >= 0
    /\ TotalWeight(instance.I) > LastSolve.q
    /\ \E i, j \in instance.I : LastSolve.x[i] = 0 /\ LastSolve.x[j] = 1

\* C2: the selection a solve returns is optimal: no set of items that weighs
\* at most the capacity has a strictly greater profit.
C2_Optimal ==
    solveLog # <<>>
        => \A S \in SUBSET instance.I :
              TotalWeight(S) <= LastSolve.q
                  => TotalProfit(S) <= TotalProfit(Flagged(LastSolve.x))

\* a solve left out an item that fits alone, and beat a non-empty feasible set
C2_Witness ==
    /\ solveLog # <<>>
    /\ LastSolve.termination = "optimal"
    /\ \E i \in instance.I :
          /\ LastSolve.x[i] = 0
          /\ instance.w[i] <= LastSolve.q
          /\ TotalProfit({i}) < TotalProfit(Flagged(LastSolve.x))

\* the statements after which the last objective value read is that of the
\* instance as it is
ValueRead == pc \in {"print", "set_value", "solve2", "qs", "sweep", "done"}

\* C3: the objective value reported equals the sum of the profits of exactly
\* the items the selection flags, after every solve of a sequence of capacity
\* changes and re-solves.
C3_ObjectiveIsProfit ==
    /\ ValueRead => reported = TotalProfit(Flagged(instance.x))
    /\ \A k \in 1..Len(values) : values[k] = TotalProfit(Flagged(SweepSolve(k).x))

\* a sweep reported two different values, the last for a selection that
\* leaves an item out
C3_Witness ==
    /\ pc = "done"
    /\ Len(values) >= 2
    /\ values[1] # values[2]
    /\ reported > 0
    /\ \E i \in instance.I : instance.x[i] = 0

\* C4: on the ten-item instance of the notebook, capacity 20 gives the optimal
\* objective 204 with a selection weighing at most 20, and capacity 30 gives
\* 262.
C4_Notebook ==
    IsNotebookInstance =>
        /\ Len(solveLog) >= 1 =>
              /\ solveLog[1].q = 20
              /\ solveLog[1].termination = "optimal"
              /\ TotalProfit(Flagged(solveLog[1].x)) = 204
              /\ TotalWeight(Flagged(solveLog[1].x)) <= 20
        /\ pc = "set_value" => reported = 204
        /\ Len(solveLog) >= 2 =>
              /\ solveLog[2].q = 30
              /\ solveLog[2].termination = "optimal"
              /\ TotalProfit(Flagged(solveLog[2].x)) = 262
        /\ pc = "qs" => reported = 262

\* the notebook's instance solved with 20 and then with 30
C4_Witness ==
    /\ IsNotebookInstance
    /\ pc = "qs"
    /\ Len(solveLog) = 2
    /\ reported = 262

\* C5: for two capacities 0 <= c1 <= c2 the optimal objective for c2 is at
\* least that for c1 (a negative capacity has no optimal objective); so the
\* values the sweep returns for 20, 25, ..., 45 on the notebook's instance
\* never decrease.
C5_Monotone ==
    /\ \A j, k \in 1..Len(solveLog) :
          (0 <= solveLog[j].q /\ solveLog[j].q <= solveLog[k].q)
              => TotalProfit(Flagged(solveLog[j].x))
                    <= TotalProfit(Flagged(solveLog[k].x))
    /\ \A j, k \in 1..Len(values) :
          (0 <= qs[j] /\ qs[j] <= qs[k]) => values[j] <= values[k]
    /\ (IsNotebookInstance /\ qs = NotebookQs)
          => \A k \in 1..(Len(values) - 1) : values[k] <= values[k + 1]

\* the notebook's sweep on the notebook's instance, ended, the value grown
C5_Witness ==
    /\ IsNotebookInstance
    /\ qs = NotebookQs
    /\ pc = "done"
    /\ Len(values) = 6
    /\ values[1] < values[6]

\* C6: the sweep calls the solver once per capacity, in the order of the
\* list, and returns as many values; the k-th point pairs the k-th capacity
\* with the objective value read after the solve for it.
C6_SweepOrder ==
    pc \in {"sweep", "done"} =>
        /\ Len(solveLog) = 2 + Len(values)
        /\ Len(values) <= Len(qs)
        /\ \A k \in 1..Len(values) :
              /\ SweepSolve(k).q = qs[k]
              /\ values[k] = TotalProfit(Flagged(SweepSolve(k).x))
        /\ pc = "done" =>
              /\ Len(values) = Len(qs)
              /\ Len(plotted) = Len(qs)
              /\ \A k \in 1..Len(qs) :
                    plotted[k] = <<qs[k], TotalProfit(Flagged(SweepSolve(k).x))>>

\* a sweep of three different capacities, ended
C6_Witness ==
    /\ pc = "done"
    /\ Len(qs) = 3
    /\ qs[1] > qs[2]
    /\ qs[2] < qs[3]
    /\ qs[1] # qs[3]
    /\ Len(plotted) = 3
\* C7: a solve depends on the items and the capacity alone: whatever updates
\* and solves came before, failed ones among them, the objective value
\* reported for a capacity is the one a freshly created instance with the same
\* items gives for that capacity.
C7_FreshEquivalent ==
    /\ pc = "set_value" => reported = value(solve(created).instance)
    /\ pc = "qs" => reported = value(solve(set_value(created, SecondCapacity)).instance)
    /\ \A k \in 1..Len(values) : values[k] = parametric_analysis(created, qs[k]).z

\* C8: changing the capacity and solving again, any number of times in any
\* order, leaves the item set and every weight and profit as created.
C8_ItemsUnchanged ==
    pc # "create" =>
        /\ instance.I = created.I
        /\ instance.p = created.p
        /\ instance.w = created.w
        /\ instance.I = modelI

\* a sweep of two capacities ended, one of them too small for some item; the
\* capacity is no longer the initial one
C8_Witness ==
    /\ pc = "done"
    /\ Len(values) >= 2
    /\ instance.q # InitialCapacity
    /\ \E k \in 1..Len(qs) : \E i \in instance.I : instance.w[i] > qs[k] /\ qs[k] >= 0
    /\ instance.p = created.p

\* C9: solving the same items with the same capacity twice gives the same
\* objective value and the same selection, whatever was solved in between.
C9_Idempotent ==
    /\ \A j, k \in 1..Len(solveLog) :
          solveLog[j].q = solveLog[k].q => solveLog[j].x = solveLog[k].x
    /\ \A j, k \in 1..Len(values) : qs[j] = qs[k] => values[j] = values[k]

\* C10: building is deterministic in the item count and the seed: two builds
\* under the same seed, the second one after the first in the same run
\* included, have the same items with the same profit in [10,50) and the same
\* weight in [1,10).
C10_Reproducible ==
    /\ \A j \in 1..Len(builds) : \A i \in builds[j].I :
          /\ builds[j].p[i] \in ProfitLo..(ProfitHi - 1)
          /\ builds[j].w[i] \in WeightLo..(WeightHi - 1)
    /\ \A j, k \in 1..Len(builds) :
          /\ builds[j].I = builds[k].I
          /\ builds[j].p = builds[k].p
          /\ builds[j].w = builds[k].w

\* C11: a negative capacity is rejected with an invalid-input error and the
\* solver is never called for it, in a direct solve and inside a sweep.
C11_NegativeRejected ==
    \A k \in 1..Len(solveLog) : solveLog[k].q >= 0

\* C12: when a solve does not end optimal the caller gets a distinct
\* solve-failed outcome for it: never an objective value or a selection that
\* looks like a successful result, such as the value a previous solve left.
C12_FailureDistinct ==
    \A k \in 1..Len(values) :
        SweepSolve(k).termination # "optimal"
            => /\ values[k] = None
               /\ \A i \in DOMAIN SweepSolve(k).x : SweepSolve(k).x[i] = None

\* the sweep points whose solve did not end optimal
FailedPoints == {k \in 1..Len(values) : SweepSolve(k).termination # "optimal"}

\* C13: in a sweep an error at one capacity aborts that point and only that
\* point: the failing point reports no result, every capacity after it is
\* still solved and its result reported, and the sweep runs to its end.
C13_FailureIsolated ==
    \A k \in FailedPoints :
        /\ values[k] = None
        /\ pc \in {"sweep", "done"}
        /\ \A j \in (k + 1)..Len(values) : SweepSolve(j).q = qs[j]
        /\ pc = "done" =>
              /\ Len(values) = Len(qs)
              /\ \A j \in (k + 1)..Len(qs) : plotted[j] = <<qs[j], values[j]>>

\* the part of C13 the sweep does keep: after a failing point every later
\* capacity is solved and reported, and the sweep runs to its end
SweepContinues ==
    \A k \in FailedPoints :
        /\ pc \in {"sweep", "done"}
        /\ \A j \in (k + 1)..Len(values) : SweepSolve(j).q = qs[j]
        /\ pc = "done" =>
              /\ Len(values) = Len(qs)
              /\ \A j \in (k + 1)..Len(qs) : plotted[j] = <<qs[j], values[j]>>

\* C14: for a non-empty item set with positive weights, a solve with capacity
\* 0 gives objective 0 and a selection that includes no item, without error.
C14_ZeroCapacity ==
    /\ \A k \in 1..Len(solveLog) :
          solveLog[k].q = 0
              => /\ instance.I # {}
                 /\ \A i \in instance.I : instance.w[i] > 0
                 /\ solveLog[k].termination = "optimal"
                 /\ \A i \in instance.I : solveLog[k].x[i] = 0
    /\ \A k \in 1..Len(values) : qs[k] = 0 => values[k] = 0
    /\ (solveLog # <<>> /\ LastSolve.q = 0)
          => /\ results.status = "ok"
             /\ results.bound = 0
             /\ Flagged(instance.x) = {}

\* a sweep solved capacity 0 right after a solve that had selected an item
C14_Witness ==
    /\ Len(values) >= 1
    /\ LastSolve.q = 0
    /\ values[Len(values)] = 0
    /\ Flagged(solveLog[Len(solveLog) - 1].x) # {}
    /\ instance.I # {}

\* C15: an item heavier than the capacity has flag 0 in the selection a solve
\* returns, and its presence does not make the solve end in an error: a solve
\* with capacity >= 0 ends optimal however heavy the items are.
C15_HeavyExcluded ==
    \A k \in 1..Len(solveLog) :
        /\ solveLog[k].termination = "optimal"
              => \A i \in instance.I :
                    instance.w[i] > solveLog[k].q => solveLog[k].x[i] = 0
        /\ solveLog[k].q >= 0 => solveLog[k].termination = "optimal"

\* a solve that ended optimal left out an item heavier than the capacity and
\* took a lighter one
C15_Witness ==
    /\ solveLog # <<>>
    /\ LastSolve.termination = "optimal"
    /\ \E i, j \in instance.I :
          /\ instance.w[i] > LastSolve.q
          /\ LastSolve.x[i] = 0
          /\ LastSolve.x[j] = 1

\* C16: in the dynamic program, back-tracking from (n, capacity) and
\* including item i exactly when best(i, c) differs from best(i-1, c), then
\* continuing from c - weight[i], gives a selection whose profit is
\* best(n, capacity) and whose weight is at most the capacity.
C16_BackTrack ==
    dp.phase = "done" =>
        /\ TotalProfit(dp.sel) = Best(dp.T, Cardinality(instance.I), instance.q)
        /\ TotalWeight(dp.sel) <= instance.q

\* back-tracking ended with an item included and an item left out, the
\* capacity too small for all
C16_Witness ==
    /\ dp.phase = "done"
    /\ dp.sel # {}
    /\ dp.sel # instance.I
    /\ TotalWeight(instance.I) > instance.q
    /\ TotalProfit(dp.sel) > 0

\* the statements that come right after a read of the objective value or of
\* the selection flags (display, print, the return of parametric_analysis)
AfterRead ==
    \/ pc \in {"solve1", "print", "set_value", "qs"}
    \/ pc \in {"sweep", "done"}

\* C17: every read of the objective value or of the selection flags comes
\* after a solve that completed after the instance was created and after the
\* last capacity update: no result is read while the selection is unset, or
\* while it was computed for a capacity other than the instance's current one.
C17_ReadAfterSolve ==
    AfterRead =>
        /\ solveLog # <<>>
        /\ \A i \in instance.I : instance.x[i] # None
        /\ reported # None
        /\ LastSolve.q = instance.q
        /\ LastSolve.termination = "optimal"

\* the part of C17 the notebook keeps: apart from the display right after
\* create_instance, every read follows a solver call made with the
\* instance's current capacity
ReadFollowsSolve ==
    (AfterRead /\ pc # "solve1") =>
        /\ solveLog # <<>>
        /\ LastSolve.q = instance.q
        /\ reported = TotalProfit(Flagged(instance.x))

====
